---- MODULE Spec2Model ----
(***************************************************************************)
(* Model of the router's metrics aggregator (router/varz.go) and of the    *)
(* connection-error classifiers (error_classifiers).                       *)
(*                                                                         *)
(* Spec        : Varz under concurrent callers, one step per statement     *)
(*               executed between Lock and Unlock, and a registry that     *)
(*               changes under them.                                       *)
(* SpecTicking : Spec, and the five-second tick of the meters.             *)
(* SpecFresh   : the Varz of NewVarz, no registry assigned to it.          *)
(* SpecLive    : the callers of Spec and SpecFresh scheduled fairly, and a *)
(*               consumer that never stops serializing.                    *)
(* SpecCell    : HttpMetric.CaptureRequest / CaptureResponse on one cell,  *)
(*               over a wide range of status codes.                        *)
(* SpecReservoir: HttpMetric.CaptureResponse on one cell, more often than  *)
(*               its latency sample has room.                              *)
(* SpecClassify: the seven ClassifierFunc values applied to error values.  *)
(***************************************************************************)
EXTENDS Integers, Sequences, FiniteSets, TLC

VARIABLES
    mutex,          \* Varz.Mutex: 0 when unlocked, else the goroutine holding it
    heap,           \* the HttpMetric objects allocated so far, by address 1..Len
    Tags,           \* varz.Tags: dimension -> (tag -> address of its *HttpMetric)
    BadRequests,    \* varz.BadRequests
    Urls,           \* varz.Urls
    Droplets,       \* varz.Droplets
    RequestsPerSec, \* varz.RequestsPerSec
    TopApps,        \* varz.TopApps
    registry,       \* what *Registry answers: NumUris, NumBackends, TopApps ranking
    pc,             \* goroutine -> position in the method it is running
    loc,            \* goroutine -> arguments and locals of that method
    doc,            \* the document a Varz.MarshalJSON is about to return
    calls,          \* history: number of calls started
    ticks,          \* history: number of meter ticks
    done,           \* history: per method, number of calls that returned
    tagged,         \* history: per method and dimension, those with a tag of it
    pre,            \* history: what the goroutine holding the lock found
    cell,           \* SpecCell: the HttpMetric under test
    cellPrev,       \* SpecCell: that HttpMetric before the latest call
    cellIn,         \* SpecCell: the latest call and its response argument
    err,            \* SpecClassify: the error value being classified
    verdict         \* SpecClassify: classifier -> outcome of its call on err

vars == <<mutex, heap, Tags, BadRequests, Urls, Droplets, RequestsPerSec, TopApps,
          registry, pc, loc, doc, calls, ticks, done, tagged, pre,
          cell, cellPrev, cellIn, err, verdict>>

varzVars == <<mutex, heap, Tags, BadRequests, Urls, Droplets, RequestsPerSec, TopApps,
              registry, pc, loc, doc, calls, ticks, done, tagged, pre>>
cellVars == <<cell, cellPrev, cellIn>>
classifyVars == <<err, verdict>>

----------------------------------------------------------------------------
(* Bounds *)

NumProcs == 2
MaxCalls == 2
MaxTicks == 1
MaxCellCalls == 3
MaxSamples == 1030

Procs == 1..NumProcs

----------------------------------------------------------------------------
(* Values *)

Nil == 0                      \* the nil *HttpMetric
AllPtr == 1                   \* the address of the cell NewVarz stores in x.All
NoDoc == [none |-> TRUE]         \* no document is being returned

Dims == <<"component", "framework", "runtime">>

\* Backend.Tags of the backends the callers pass: no tags (also a nil map,
\* whose lookups answer "", false), one dimension, all three.
Backends ==
    { <<>>,
      [k \in {"component"} |-> "cc"],
      [k \in {"component", "framework", "runtime"} |->
          IF k = "component" THEN "dea" ELSE IF k = "framework" THEN "rails" ELSE "ruby"] }

\* A *http.Response argument: nil, or a response with its StatusCode.
NilResponse == [isNil |-> TRUE, StatusCode |-> 0]
Response(code) == [isNil |-> FALSE, StatusCode |-> code]

\* The responses the callers of Varz pass.
Responses == {NilResponse} \cup {Response(c) : c \in {200, 503}}

\* d.Nanoseconds() of the durations the callers pass.
Durations == {7}

\* Go's integer division truncates toward zero.
GoDiv(a, b) == IF a >= 0 THEN a \div b ELSE -((-a) \div b)

----------------------------------------------------------------------------
(* go-metrics, as HttpMetric uses it *)

\* metrics.NewExpDecaySample(1028, 0.015): the reservoir's capacity.
ReservoirSize == 1028

\* The 1, 5 and 15 minute weights 1 - exp(-5/60/m) of a meter's three moving
\* averages, in thousandths.
Alpha == <<80, 17, 6>>

\* metrics.NewMeter(): nothing marked, the moving averages not yet started.
\* Rates are in thousandths of an event per second.
NewMeter == [uncounted |-> 0, init |-> FALSE, rate |-> <<0, 0, 0>>]

\* Meter.Mark(n): n more events since the last tick.
Mark(m, n) == [m EXCEPT !.uncounted = @ + n]

\* The meter's tick, every five seconds on go-metrics' own goroutine: the
\* first tick sets each average to the interval's rate, a later one moves it
\* toward that rate by its weight.
MeterTick(m) ==
    LET instant == 200 * m.uncounted
    IN  [uncounted |-> 0,
         init |-> TRUE,
         rate |-> [j \in 1..3 |->
                    IF m.init
                    THEN m.rate[j] + GoDiv(Alpha[j] * (instant - m.rate[j]), 1000)
                    ELSE instant]]

Rate1(m) == m.rate[1]

\* Histogram.Update on the exponentially decaying sample: below capacity the
\* value is added; at capacity the sample keeps its size, the value replacing
\* the slot k its random priorities pick (k = 0: the value is not kept).
Evictions(s) == IF Len(s) < ReservoirSize THEN {0} ELSE 0..Len(s)
Update(s, v, k) ==
    IF Len(s) < ReservoirSize THEN Append(s, v)
    ELSE IF k = 0 THEN s ELSE [s EXCEPT ![k] = v]

----------------------------------------------------------------------------
(* HttpMetric *)

NewHttpMetric ==
    [Requests |-> 0, Rate |-> NewMeter,
     Responses2xx |-> 0, Responses3xx |-> 0, Responses4xx |-> 0,
     Responses5xx |-> 0, ResponsesXxx |-> 0,
     Latency |-> <<>>]

\* Mutant: the request is marked on the meter and not counted.
CaptureRequestMarkOnly(x) == [x EXCEPT !.Rate = Mark(@, 1)]

CaptureRequest(x) ==
    [x EXCEPT !.Requests = @ + 1, !.Rate = Mark(@, 1)]

\* Mutant: case 5 increments the counter of case 4.
BucketCase5As4(s) ==
    CASE s = 2 -> "Responses2xx"
      [] s = 3 -> "Responses3xx"
      [] s = 4 -> "Responses4xx"
      [] s = 5 -> "Responses4xx"
      [] OTHER -> "ResponsesXxx"

\* The switch of CaptureResponse: the counter that case s increments.
Bucket(s) ==
    CASE s = 2 -> "Responses2xx"
      [] s = 3 -> "Responses3xx"
      [] s = 4 -> "Responses4xx"
      [] s = 5 -> "Responses5xx"
      [] OTHER -> "ResponsesXxx"

\* Mutant: the latency is kept in a list that grows with every response.
CaptureResponseUnbounded(x, y, z, k) ==
    LET s == IF ~y.isNil THEN GoDiv(y.StatusCode, 100) ELSE 0
    IN  [x EXCEPT ![Bucket(s)] = @ + 1, !.Latency = Append(@, z)]

CaptureResponse(x, y, z, k) ==
    LET s == IF ~y.isNil THEN GoDiv(y.StatusCode, 100) ELSE 0
    IN  [x EXCEPT ![Bucket(s)] = @ + 1, !.Latency = Update(@, z, k)]

----------------------------------------------------------------------------
(* TaggedHttpMetric *)

\* Mutant: the lookup misses the cell stored under t.
MapGetMisses(x, t) == Nil

\* y := x[t] on a Go map: the zero value, nil, for a key not in it.
MapGet(x, t) == IF t \in DOMAIN x THEN x[t] ELSE Nil

\* x[t] = y
MapPut(x, t, y) == [u \in DOMAIN x \cup {t} |-> IF u = t THEN y ELSE x[u]]

----------------------------------------------------------------------------
(* error_classifiers *)

\* An error value: the nil error, an error of a type no classifier names, or
\* a value of a type a classifier names. ptr tells a pointer from a value,
\* nilptr a nil pointer held in a non-nil interface. A *net.OpError has its
\* Op and its Err, which is nil or an error with a message.
NoErr == [isNil |-> TRUE, msg |-> ""]
ErrMsg(m) == [isNil |-> FALSE, msg |-> m]

ErrorValue(type, ptr, nilptr, op, e) ==
    [type |-> type, ptr |-> ptr, nilptr |-> nilptr, Op |-> op, Err |-> e]

NilError == ErrorValue("nil", FALSE, FALSE, "", NoErr)

Ops == {"dial", "read", "remote error", "write"}

Messages == {"read: connection reset by peer", "connection reset by peer",
             "tls: bad certificate", "tls: handshake failure",
             "connection refused"}

CertErrorTypes == {"tls.RecordHeaderError", "x509.HostnameError",
                   "x509.UnknownAuthorityError"}

Errors ==
    {NilError, ErrorValue("errors.errorString", TRUE, FALSE, "", NoErr)}
    \cup {ErrorValue(t, FALSE, FALSE, "", NoErr) : t \in CertErrorTypes}
    \cup {ErrorValue(t, TRUE, n, "", NoErr) : t \in CertErrorTypes, n \in BOOLEAN}
    \cup {ErrorValue("net.OpError", TRUE, TRUE, "", NoErr)}
    \cup {ErrorValue("net.OpError", TRUE, FALSE, op, e) :
             op \in Ops, e \in {NoErr} \cup {ErrMsg(m) : m \in Messages}}

GoBool(b) == IF b THEN "true" ELSE "false"

\* switch err.(type) { case T, *T: return true; default: return false }
TypeSwitch(e, T) == GoBool(e.type = T)

\* ne, ok := err.(*net.OpError)
IsOpError(e) == e.type = "net.OpError" /\ e.ptr

\* ok && ne.Op == op: reading ne.Op through a nil ne panics.
\* ... && ne.Err.Error() == msg: calling Error on a nil ne.Err panics.
OpErrorIs(e, op) ==
    IF ~IsOpError(e) THEN "false"
    ELSE IF e.nilptr THEN "panic"
    ELSE GoBool(e.Op = op)

OpErrorSays(e, op, msg) ==
    IF OpErrorIs(e, op) # "true" THEN OpErrorIs(e, op)
    ELSE IF e.Err.isNil THEN "panic"
    ELSE GoBool(e.Err.msg = msg)

AttemptedTLSWithNonTLSBackend(e) == TypeSwitch(e, "tls.RecordHeaderError")

\* Mutant: any *net.OpError is a dial failure.
DialAnyOp(e) == OpErrorIs(e, e.Op)

Dial(e) == OpErrorIs(e, "dial")
ConnectionResetOnRead(e) == OpErrorSays(e, "read", "read: connection reset by peer")
RemoteFailedCertCheck(e) == OpErrorSays(e, "remote error", "tls: bad certificate")
RemoteHandshakeFailure(e) == OpErrorSays(e, "remote error", "tls: handshake failure")

\* Mutant: the cases of UntrustedCert, pasted.
HostnameMismatchPasted(e) == TypeSwitch(e, "x509.UnknownAuthorityError")

HostnameMismatch(e) == TypeSwitch(e, "x509.HostnameError")

\* Mutant: the case list also names the hostname error.
UntrustedCertOrHostname(e) ==
    GoBool(e.type \in {"x509.UnknownAuthorityError", "x509.HostnameError"})

UntrustedCert(e) == TypeSwitch(e, "x509.UnknownAuthorityError")

Classifiers == {"AttemptedTLSWithNonTLSBackend", "Dial", "ConnectionResetOnRead",
                "RemoteFailedCertCheck", "RemoteHandshakeFailure",
                "HostnameMismatch", "UntrustedCert"}

\* ClassifierFunc.Classify: f(err)
Classify(c, e) ==
    CASE c = "AttemptedTLSWithNonTLSBackend" -> AttemptedTLSWithNonTLSBackend(e)
      [] c = "Dial" -> Dial(e)
      [] c = "ConnectionResetOnRead" -> ConnectionResetOnRead(e)
      [] c = "RemoteFailedCertCheck" -> RemoteFailedCertCheck(e)
      [] c = "RemoteHandshakeFailure" -> RemoteHandshakeFailure(e)
      [] c = "HostnameMismatch" -> HostnameMismatch(e)
      [] c = "UntrustedCert" -> UntrustedCert(e)

----------------------------------------------------------------------------
(* Registry and stats: the collaborators Varz.MarshalJSON asks *)

\* stats.TopAppsEntryLifetime.Seconds()
TopAppsEntryLifetime == 60

\* What the registry can hold: its uri count, its backend count, and its
\* applications ranked by the requests of the trailing minute: one
\* application, or eleven, one more than Varz asks for.
\* The nil *Registry: what the field holds until a registry is assigned to it.
NilRegistry == [isNil |-> TRUE, uris |-> 0, backends |-> 0, top |-> <<>>]

RegistryStates ==
    { [isNil |-> FALSE, uris |-> 1, backends |-> 2,
       top |-> <<[ApplicationId |-> "app1", Requests |-> 600]>>],
      [isNil |-> FALSE, uris |-> 2, backends |-> 3,
       top |-> <<[ApplicationId |-> "app2", Requests |-> 61],
                 [ApplicationId |-> "app1", Requests |-> 59]>>
               \o [i \in 1..9 |->
                    [ApplicationId |-> <<"app3", "app4", "app5", "app6", "app7",
                                         "app8", "app9", "app10", "app11">>[i],
                     Requests |-> 10 - i]]] }

NumUris(r) == r.uris
NumBackends(r) == r.backends
TopSince(r, n) == SubSeq(r.top, 1, IF Len(r.top) < n THEN Len(r.top) ELSE n)

----------------------------------------------------------------------------
(* Varz *)

DimSet == {Dims[i] : i \in 1..Len(Dims)}

\* NewVarz: x.All a fresh HttpMetric, the three tag maps made empty.
NewVarzHeap == <<NewHttpMetric>>
NewVarzTags == [k \in DimSet |-> <<>>]

\* Mutant: the per-second rate is the count itself, not divided.
topAppsEntryUndivided(z) ==
    [ApplicationId |-> z.ApplicationId,
     RequestsPerSecond |-> z.Requests,
     RequestsPerMinute |-> z.Requests]

\* One entry of the loop of updateTop.
topAppsEntry(z) ==
    [ApplicationId |-> z.ApplicationId,
     RequestsPerSecond |-> GoDiv(z.Requests, TopAppsEntryLifetime),
     RequestsPerMinute |-> z.Requests]

\* Mutant: the list is not made empty before the loop appends to it.
updateTopAppends(y) == TopApps \o [i \in 1..Len(y) |-> topAppsEntry(y[i])]

\* x.varz.TopApps = make([]topAppsEntry, 0) and the loop of updateTop over y,
\* the answer of TopSince.
updateTop(y) == [i \in 1..Len(y) |-> topAppsEntry(y[i])]

\* Histogram.Percentiles of go-metrics on the sorted sample, in hundredths:
\* 0 for an empty sample, else interpolated at rank p * (size + 1).
RECURSIVE Insert(_, _)
Insert(s, v) ==
    IF s = <<>> THEN <<v>>
    ELSE IF v <= Head(s) THEN <<v>> \o s
    ELSE <<Head(s)>> \o Insert(Tail(s), v)

RECURSIVE Sorted(_)
Sorted(s) == IF s = <<>> THEN <<>> ELSE Insert(Sorted(Tail(s)), Head(s))

Percentile(values, p) ==
    LET size == Len(values)
        v == Sorted(values)
        pos == p * (size + 1)
    IN  IF size = 0 THEN 0
        ELSE IF pos < 100 THEN 100 * v[1]
        ELSE IF pos >= 100 * size THEN 100 * v[size]
        ELSE 100 * v[pos \div 100]
             + (pos % 100) * (v[(pos \div 100) + 1] - v[pos \div 100])

\* HttpMetric.MarshalJSON: the block of one cell.
HttpMetricJSON(x) ==
    [requests |-> x.Requests,
     rate |-> x.Rate.rate,
     responses_2xx |-> x.Responses2xx,
     responses_3xx |-> x.Responses3xx,
     responses_4xx |-> x.Responses4xx,
     responses_5xx |-> x.Responses5xx,
     responses_xxx |-> x.ResponsesXxx,
     latency |-> [q \in {50, 75, 99} |-> Percentile(x.Latency, q)]]

\* json.Marshal(x.varz)
VarzJSON ==
    [all |-> HttpMetricJSON(heap[AllPtr]),
     tags |-> [k \in DimSet |->
                 [t \in DOMAIN Tags[k] |-> HttpMetricJSON(heap[Tags[k][t]])]],
     urls |-> Urls,
     droplets |-> Droplets,
     bad_requests |-> BadRequests,
     requests_per_sec |-> RequestsPerSec,
     top10_app_requests |-> TopApps]

\* What the capture methods accumulate.
Accumulated == [heap |-> heap, Tags |-> Tags, BadRequests |-> BadRequests]

\* What Varz.MarshalJSON derives.
Derived == [Urls |-> Urls, Droplets |-> Droplets,
            RequestsPerSec |-> RequestsPerSec, TopApps |-> TopApps]

\* The methods whose returns are counted.
Captures == {"CaptureBadRequest", "CaptureBackendRequest", "CaptureBackendResponse"}

\* Those of them that are passed a backend.
BackendCaptures == {"CaptureBackendRequest", "CaptureBackendResponse"}

NoPre == [none |-> TRUE]

\* op, b, res, d: the method and its arguments; i: the dimension a capture
\* method is at; t, y: the locals of httpMetric; top: the local y of updateTop.
IdleLoc == [op |-> "none", b |-> <<>>, res |-> NilResponse, d |-> 0,
            i |-> 1, t |-> "", y |-> Nil, top |-> <<>>]

InitVarz ==
    /\ mutex = 0
    /\ heap = NewVarzHeap
    /\ Tags = NewVarzTags
    /\ BadRequests = 0
    /\ Urls = 0
    /\ Droplets = 0
    /\ RequestsPerSec = 0
    /\ TopApps = <<>>
    /\ registry \in RegistryStates
    /\ pc = [p \in Procs |-> "idle"]
    /\ loc = [p \in Procs |-> IdleLoc]
    /\ doc = NoDoc
    /\ calls = 0
    /\ ticks = 0
    /\ done = [m \in Captures |-> 0]
    /\ tagged = [m \in BackendCaptures |-> [k \in DimSet |-> 0]]
    /\ pre = NoPre

\* SpecCell: a fresh cell no method was called on.
InitCell ==
    /\ cell = NewHttpMetric
    /\ cellPrev = NewHttpMetric
    /\ cellIn = [op |-> "none", y |-> NilResponse]

Init ==
    /\ InitVarz
    /\ InitCell
    /\ err = NilError
    /\ verdict = <<>>

\* A goroutine enters one of the four methods.
Call(p, op, b, res, d) ==
    /\ pc[p] = "idle"
    /\ calls < MaxCalls
    /\ calls' = calls + 1
    /\ pc' = [pc EXCEPT ![p] = "lock"]
    /\ loc' = [loc EXCEPT ![p] = [IdleLoc EXCEPT !.op = op, !.b = b, !.res = res, !.d = d]]
    /\ UNCHANGED <<cellVars, classifyVars, mutex, heap, Tags, BadRequests,
                   Urls, Droplets, RequestsPerSec, TopApps, registry, doc,
                   ticks, done, tagged, pre>>

\* Mutant: Lock returns at once, whoever holds the mutex.
CanLockHeld(p) == TRUE

\* sync.Mutex: Lock returns once no goroutine holds the mutex.
CanLock(p) == mutex = 0

\* x.Lock()
Lock(p, next) ==
    /\ pc[p] = "lock"
    /\ CanLock(p)
    /\ mutex' = p
    /\ pc' = [pc EXCEPT ![p] = next]
    /\ pre' = [acc |-> Accumulated, registry |-> registry, derived |-> Derived]
    /\ UNCHANGED <<cellVars, classifyVars, heap, Tags, BadRequests, Urls,
                   Droplets, RequestsPerSec, TopApps, registry, loc, doc,
                   calls, ticks, done, tagged>>

\* defer x.Unlock(), and the return
Unlock(p) ==
    /\ pc[p] = "unlock"
    /\ mutex' = 0
    /\ pc' = [pc EXCEPT ![p] = "idle"]
    /\ done' = IF loc[p].op \in Captures THEN [done EXCEPT ![loc[p].op] = @ + 1] ELSE done
    /\ tagged' = IF loc[p].op \in BackendCaptures
                  THEN [tagged EXCEPT ![loc[p].op] =
                          [k \in DimSet |-> @[k] + IF k \in DOMAIN loc[p].b THEN 1 ELSE 0]]
                  ELSE tagged
    /\ loc' = [loc EXCEPT ![p] = IdleLoc]
    /\ doc' = NoDoc
    /\ pre' = NoPre
    /\ UNCHANGED <<cellVars, classifyVars, heap, Tags, BadRequests, Urls,
                   Droplets, RequestsPerSec, TopApps, registry, calls, ticks>>

\* Mutant: the method returns after the last dimension, x.varz.All not updated.
AfterDimReturns(i) == IF i < Len(Dims) THEN "tag" ELSE "unlock"

\* The position after dimension i of a capture method: the next dimension,
\* or the update of x.varz.All.
AfterDim(i) == IF i < Len(Dims) THEN "tag" ELSE "all"

\* Mutant: ok is not tested, a missing tag counted under the zero value "".
TagStepIgnoresOk(p) ==
    /\ pc[p] = "tag"
    /\ LET k == Dims[loc[p].i]
           b == loc[p].b
           t == IF k \in DOMAIN b THEN b[k] ELSE ""
       IN  /\ loc' = [loc EXCEPT ![p].t = t, ![p].y = MapGet(Tags[k], t)]
           /\ pc' = [pc EXCEPT ![p] = "cell"]
    /\ UNCHANGED <<cellVars, classifyVars, mutex, heap, Tags, BadRequests,
                   Urls, Droplets, RequestsPerSec, TopApps, registry, doc,
                   calls, ticks, done, tagged, pre>>

\* t, ok = b.Tags[Dims[i]] and, if ok, the lookup y := x[t] that opens
\* TaggedHttpMetric.httpMetric; a dimension b has no tag of is passed over.
TagStep(p) ==
    /\ pc[p] = "tag"
    /\ LET k == Dims[loc[p].i]
           b == loc[p].b
       IN  IF k \in DOMAIN b
           THEN /\ loc' = [loc EXCEPT ![p].t = b[k], ![p].y = MapGet(Tags[k], b[k])]
                /\ pc' = [pc EXCEPT ![p] = "cell"]
           ELSE /\ loc' = [loc EXCEPT ![p].i = IF @ < Len(Dims) THEN @ + 1 ELSE @]
                /\ pc' = [pc EXCEPT ![p] = AfterDim(loc[p].i)]
    /\ UNCHANGED <<cellVars, classifyVars, mutex, heap, Tags, BadRequests,
                   Urls, Droplets, RequestsPerSec, TopApps, registry, doc,
                   calls, ticks, done, tagged, pre>>

\* The rest of TaggedHttpMetric.httpMetric for the lookup result y of tag t
\* in dimension k: a nil y is replaced by a new cell, stored under t. Gives
\* the cell returned and the heap and tag maps it leaves.
httpMetric(k, t, y) ==
    IF y = Nil
    THEN [y |-> Len(heap) + 1,
          heap |-> Append(heap, NewHttpMetric),
          Tags |-> [Tags EXCEPT ![k] = MapPut(@, t, Len(heap) + 1)]]
    ELSE [y |-> y, heap |-> heap, Tags |-> Tags]

\* A capture method goes on after the cell of dimension i.
NextDim(p) ==
    /\ loc' = [loc EXCEPT ![p].i = IF @ < Len(Dims) THEN @ + 1 ELSE @, ![p].y = Nil]
    /\ pc' = [pc EXCEPT ![p] = AfterDim(loc[p].i)]

\* TaggedHttpMetric.CaptureRequest: x.httpMetric(t).CaptureRequest()
TaggedCaptureRequest(p) ==
    /\ pc[p] = "cell"
    /\ LET r == httpMetric(Dims[loc[p].i], loc[p].t, loc[p].y)
       IN  /\ heap' = [r.heap EXCEPT ![r.y] = CaptureRequest(@)]
           /\ Tags' = r.Tags
    /\ NextDim(p)
    /\ UNCHANGED <<cellVars, classifyVars, mutex, BadRequests, Urls, Droplets,
                   RequestsPerSec, TopApps, registry, doc, calls, ticks, done, tagged,
                   pre>>

\* Mutant: the cell of the tag is passed no response.
TaggedCaptureResponseNoRes(p) ==
    /\ pc[p] = "cell"
    /\ LET r == httpMetric(Dims[loc[p].i], loc[p].t, loc[p].y)
       IN  \E k \in Evictions(r.heap[r.y].Latency) :
             /\ heap' = [r.heap EXCEPT
                           ![r.y] = CaptureResponse(@, NilResponse, loc[p].d, k)]
             /\ Tags' = r.Tags
    /\ NextDim(p)
    /\ UNCHANGED <<cellVars, classifyVars, mutex, BadRequests, Urls, Droplets,
                   RequestsPerSec, TopApps, registry, doc, calls, ticks, done,
                   tagged, pre>>

\* TaggedHttpMetric.CaptureResponse: x.httpMetric(t).CaptureResponse(y, z)
TaggedCaptureResponse(p) ==
    /\ pc[p] = "cell"
    /\ LET r == httpMetric(Dims[loc[p].i], loc[p].t, loc[p].y)
       IN  \E k \in Evictions(r.heap[r.y].Latency) :
             /\ heap' = [r.heap EXCEPT
                           ![r.y] = CaptureResponse(@, loc[p].res, loc[p].d, k)]
             /\ Tags' = r.Tags
    /\ NextDim(p)
    /\ UNCHANGED <<cellVars, classifyVars, mutex, BadRequests, Urls, Droplets,
                   RequestsPerSec, TopApps, registry, doc, calls, ticks, done, tagged,
                   pre>>

\* x.varz.All.CaptureRequest()
AllCaptureRequest(p) ==
    /\ pc[p] = "all"
    /\ heap' = [heap EXCEPT ![AllPtr] = CaptureRequest(@)]
    /\ pc' = [pc EXCEPT ![p] = "unlock"]
    /\ UNCHANGED <<cellVars, classifyVars, mutex, Tags, BadRequests, Urls,
                   Droplets, RequestsPerSec, TopApps, registry, loc, doc,
                   calls, ticks, done, tagged, pre>>

\* x.varz.All.CaptureResponse(res, d)
AllCaptureResponse(p) ==
    /\ pc[p] = "all"
    /\ \E k \in Evictions(heap[AllPtr].Latency) :
         heap' = [heap EXCEPT
                    ![AllPtr] = CaptureResponse(@, loc[p].res, loc[p].d, k)]
    /\ pc' = [pc EXCEPT ![p] = "unlock"]
    /\ UNCHANGED <<cellVars, classifyVars, mutex, Tags, BadRequests, Urls,
                   Droplets, RequestsPerSec, TopApps, registry, loc, doc,
                   calls, ticks, done, tagged, pre>>

\* Mutant: the bad request is also counted as a request in x.All.
CaptureBadRequestCounted(p) ==
    /\ loc[p].op = "CaptureBadRequest"
    /\ \/ Lock(p, "bad")
       \/ /\ pc[p] = "bad"
          /\ BadRequests' = BadRequests + 1
          /\ heap' = [heap EXCEPT ![AllPtr] = CaptureRequest(@)]
          /\ pc' = [pc EXCEPT ![p] = "unlock"]
          /\ UNCHANGED <<cellVars, classifyVars, mutex, Tags, Urls,
                         Droplets, RequestsPerSec, TopApps, registry, loc, doc,
                         calls, ticks, done, tagged, pre>>
       \/ Unlock(p)

CaptureBadRequest(p) ==
    /\ loc[p].op = "CaptureBadRequest"
    /\ \/ Lock(p, "bad")
       \/ /\ pc[p] = "bad"
          /\ BadRequests' = BadRequests + 1
          /\ pc' = [pc EXCEPT ![p] = "unlock"]
          /\ UNCHANGED <<cellVars, classifyVars, mutex, heap, Tags, Urls,
                         Droplets, RequestsPerSec, TopApps, registry, loc, doc,
                         calls, ticks, done, tagged, pre>>
       \/ Unlock(p)

CaptureBackendRequest(p) ==
    /\ loc[p].op = "CaptureBackendRequest"
    /\ \/ Lock(p, "tag")
       \/ TagStep(p)
       \/ TaggedCaptureRequest(p)
       \/ AllCaptureRequest(p)
       \/ Unlock(p)

CaptureBackendResponse(p) ==
    /\ loc[p].op = "CaptureBackendResponse"
    /\ \/ Lock(p, "tag")
       \/ TagStep(p)
       \/ TaggedCaptureResponse(p)
       \/ AllCaptureResponse(p)
       \/ Unlock(p)

\* x.Registry.NumUris() with x.Registry nil: the method reads the registry's
\* tables through its nil receiver, as updateTop reads x.Registry.TopApps,
\* and the goroutine panics.
NilRegistryPanic(p) ==
    /\ pc[p] = "urls"
    /\ registry.isNil
    /\ pc' = [pc EXCEPT ![p] = "panic"]
    /\ UNCHANGED <<cellVars, classifyVars, mutex, heap, Tags, BadRequests,
                   Urls, Droplets, RequestsPerSec, TopApps, registry, loc, doc,
                   calls, ticks, done, tagged, pre>>

\* Mutant: Unlock is not deferred, a panic leaves the mutex locked.
UnwindLocked(p) ==
    /\ pc[p] = "panic"
    /\ pc' = [pc EXCEPT ![p] = "idle"]
    /\ loc' = [loc EXCEPT ![p] = IdleLoc]
    /\ UNCHANGED <<cellVars, classifyVars, mutex, heap, Tags, BadRequests, Urls,
                   Droplets, RequestsPerSec, TopApps, registry, doc, calls,
                   ticks, done, tagged, pre>>

\* The panic unwinds MarshalJSON: the deferred x.Unlock() runs and the panic
\* goes on into the caller, which gets no document.
Unwind(p) ==
    /\ pc[p] = "panic"
    /\ mutex' = 0
    /\ pc' = [pc EXCEPT ![p] = "idle"]
    /\ loc' = [loc EXCEPT ![p] = IdleLoc]
    /\ pre' = NoPre
    /\ UNCHANGED <<cellVars, classifyVars, heap, Tags, BadRequests, Urls,
                   Droplets, RequestsPerSec, TopApps, registry, doc, calls,
                   ticks, done, tagged>>

\* Mutant: the bad-request counter starts again from 0 once it is encoded.
MarshalJSONResets(p) ==
    /\ loc[p].op = "MarshalJSON"
    /\ \/ Lock(p, "urls")
       \/ /\ pc[p] = "urls"
          /\ ~registry.isNil
          /\ Urls' = NumUris(registry)
          /\ pre' = [acc |-> Accumulated, registry |-> registry, derived |-> Derived]
          /\ pc' = [pc EXCEPT ![p] = "droplets"]
          /\ UNCHANGED <<cellVars, classifyVars, mutex, heap, Tags,
                         BadRequests, Droplets, RequestsPerSec, TopApps,
                         registry, loc, doc, calls, ticks, done, tagged>>
       \/ NilRegistryPanic(p)
       \/ /\ pc[p] = "droplets"
          /\ Droplets' = NumBackends(registry)
          /\ pc' = [pc EXCEPT ![p] = "rate"]
          /\ UNCHANGED <<cellVars, classifyVars, mutex, heap, Tags,
                         BadRequests, Urls, RequestsPerSec, TopApps, registry,
                         loc, doc, calls, ticks, done, tagged, pre>>
       \/ /\ pc[p] = "rate"
          /\ RequestsPerSec' = Rate1(heap[AllPtr].Rate)
          /\ pc' = [pc EXCEPT ![p] = "top"]
          /\ UNCHANGED <<cellVars, classifyVars, mutex, heap, Tags,
                         BadRequests, Urls, Droplets, TopApps, registry, loc,
                         doc, calls, ticks, done, tagged, pre>>
       \/ /\ pc[p] = "top"
          /\ LET y == TopSince(registry, 10)
             IN  /\ loc' = [loc EXCEPT ![p].top = y]
                 /\ TopApps' = updateTop(y)
          /\ pc' = [pc EXCEPT ![p] = "encode"]
          /\ UNCHANGED <<cellVars, classifyVars, mutex, heap, Tags,
                         BadRequests, Urls, Droplets, RequestsPerSec, registry,
                         doc, calls, ticks, done, tagged, pre>>
       \/ /\ pc[p] = "encode"
          /\ doc' = VarzJSON
          /\ BadRequests' = 0
          /\ pc' = [pc EXCEPT ![p] = "unlock"]
          /\ UNCHANGED <<cellVars, classifyVars, mutex, heap, Tags,
                         Urls, Droplets, RequestsPerSec, TopApps,
                         registry, loc, calls, ticks, done, tagged, pre>>
       \/ Unlock(p)
       \/ Unwind(p)

MarshalJSON(p) ==
    /\ loc[p].op = "MarshalJSON"
    /\ \/ Lock(p, "urls")
       \/ /\ pc[p] = "urls"
          /\ ~registry.isNil
          /\ Urls' = NumUris(registry)
          /\ pre' = [acc |-> Accumulated, registry |-> registry, derived |-> Derived]
          /\ pc' = [pc EXCEPT ![p] = "droplets"]
          /\ UNCHANGED <<cellVars, classifyVars, mutex, heap, Tags,
                         BadRequests, Droplets, RequestsPerSec, TopApps,
                         registry, loc, doc, calls, ticks, done, tagged>>
       \/ NilRegistryPanic(p)
       \/ /\ pc[p] = "droplets"
          /\ Droplets' = NumBackends(registry)
          /\ pc' = [pc EXCEPT ![p] = "rate"]
          /\ UNCHANGED <<cellVars, classifyVars, mutex, heap, Tags,
                         BadRequests, Urls, RequestsPerSec, TopApps, registry,
                         loc, doc, calls, ticks, done, tagged, pre>>
       \/ /\ pc[p] = "rate"
          /\ RequestsPerSec' = Rate1(heap[AllPtr].Rate)
          /\ pc' = [pc EXCEPT ![p] = "top"]
          /\ UNCHANGED <<cellVars, classifyVars, mutex, heap, Tags,
                         BadRequests, Urls, Droplets, TopApps, registry, loc,
                         doc, calls, ticks, done, tagged, pre>>
       \/ /\ pc[p] = "top"
          /\ LET y == TopSince(registry, 10)
             IN  /\ loc' = [loc EXCEPT ![p].top = y]
                 /\ TopApps' = updateTop(y)
          /\ pc' = [pc EXCEPT ![p] = "encode"]
          /\ UNCHANGED <<cellVars, classifyVars, mutex, heap, Tags,
                         BadRequests, Urls, Droplets, RequestsPerSec, registry,
                         doc, calls, ticks, done, tagged, pre>>
       \/ /\ pc[p] = "encode"
          /\ doc' = VarzJSON
          /\ pc' = [pc EXCEPT ![p] = "unlock"]
          /\ UNCHANGED <<cellVars, classifyVars, mutex, heap, Tags,
                         BadRequests, Urls, Droplets, RequestsPerSec, TopApps,
                         registry, loc, calls, ticks, done, tagged, pre>>
       \/ Unlock(p)
       \/ Unwind(p)

\* The registry changes as routes are registered and requests are counted;
\* nothing it does takes the lock of Varz.
RegistryChange ==
    /\ registry' \in RegistryStates \ {registry}
    /\ UNCHANGED <<cellVars, classifyVars, mutex, heap, Tags, BadRequests,
                   Urls, Droplets, RequestsPerSec, TopApps, pc, loc, doc,
                   calls, ticks, done, tagged, pre>>

\* Five seconds pass: go-metrics ticks every meter.
Tick ==
    /\ ticks < MaxTicks
    /\ ticks' = ticks + 1
    /\ heap' = [a \in DOMAIN heap |-> [heap[a] EXCEPT !.Rate = MeterTick(@)]]
    /\ UNCHANGED <<cellVars, classifyVars, mutex, Tags, BadRequests, Urls,
                   Droplets, RequestsPerSec, TopApps, registry, pc, loc, doc,
                   calls, done, tagged, pre>>

Next ==
    \/ \E p \in Procs :
         \/ Call(p, "CaptureBadRequest", <<>>, NilResponse, 0)
         \/ \E b \in Backends : Call(p, "CaptureBackendRequest", b, NilResponse, 0)
         \/ \E b \in Backends, res \in Responses, d \in Durations :
              Call(p, "CaptureBackendResponse", b, res, d)
         \/ Call(p, "MarshalJSON", <<>>, NilResponse, 0)
         \/ CaptureBadRequest(p)
         \/ CaptureBackendRequest(p)
         \/ CaptureBackendResponse(p)
         \/ MarshalJSON(p)
    \/ RegistryChange

Spec == Init /\ [][Next]_vars

\* Spec, with the meters ticking.
NextTicking == Next \/ Tick

SpecTicking == Init /\ [][NextTicking]_vars

\* SpecFresh: the Varz NewVarz returns, which has no registry, called before
\* any is assigned to it.
InitFresh ==
    /\ InitCell
    /\ err = NilError
    /\ verdict = <<>>
    /\ mutex = 0
    /\ heap = NewVarzHeap
    /\ Tags = NewVarzTags
    /\ BadRequests = 0
    /\ Urls = 0
    /\ Droplets = 0
    /\ RequestsPerSec = 0
    /\ TopApps = <<>>
    /\ registry = NilRegistry
    /\ pc = [p \in Procs |-> "idle"]
    /\ loc = [p \in Procs |-> IdleLoc]
    /\ doc = NoDoc
    /\ calls = 0
    /\ ticks = 0
    /\ done = [m \in Captures |-> 0]
    /\ tagged = [m \in BackendCaptures |-> [k \in DimSet |-> 0]]
    /\ pre = NoPre

NextFresh ==
    \E p \in Procs :
         \/ Call(p, "CaptureBadRequest", <<>>, NilResponse, 0)
         \/ \E b \in Backends : Call(p, "CaptureBackendRequest", b, NilResponse, 0)
         \/ \E b \in Backends, res \in Responses, d \in Durations :
              Call(p, "CaptureBackendResponse", b, res, d)
         \/ Call(p, "MarshalJSON", <<>>, NilResponse, 0)
         \/ CaptureBadRequest(p)
         \/ CaptureBackendRequest(p)
         \/ CaptureBackendResponse(p)
         \/ MarshalJSON(p)

SpecFresh == InitFresh /\ [][NextFresh]_vars

\* SpecLive: goroutines that are scheduled fairly, on a Varz with or without
\* a registry, and a consumer that serializes again and again.
InitLive == Init \/ InitFresh

\* A further serialize, as the periodic consumer issues them without end.
Poll(p) ==
    /\ pc[p] = "idle"
    /\ calls = MaxCalls
    /\ pc' = [pc EXCEPT ![p] = "lock"]
    /\ loc' = [loc EXCEPT ![p] = [IdleLoc EXCEPT !.op = "MarshalJSON"]]
    /\ UNCHANGED <<cellVars, classifyVars, mutex, heap, Tags, BadRequests,
                   Urls, Droplets, RequestsPerSec, TopApps, registry, doc,
                   calls, ticks, done, tagged, pre>>

NextLive == NextFresh \/ \E p \in Procs : Poll(p)

\* The steps of goroutine p inside a method of Varz.
Run(p) ==
    \/ CaptureBadRequest(p)
    \/ CaptureBackendRequest(p)
    \/ CaptureBackendResponse(p)
    \/ MarshalJSON(p)

\* A goroutine that can take a step takes it, and a goroutine waiting in
\* Lock gets the mutex if it is free again and again: sync.Mutex hands the
\* mutex to a waiter that has waited long.
SpecLive == InitLive /\ [][NextLive]_vars /\ \A p \in Procs : SF_vars(Run(p))

----------------------------------------------------------------------------
(* SpecCell: one HttpMetric, called directly *)

\* The status codes of the responses passed to the cell.
StatusCodes == {c \in (-100)..699 : c % 100 \in {0, 1, 50, 99}}

CellCalls(x) ==
    x.Requests + x.Responses2xx + x.Responses3xx + x.Responses4xx
    + x.Responses5xx + x.ResponsesXxx

CellCaptureRequest ==
    /\ CellCalls(cell) < MaxCellCalls
    /\ cell' = CaptureRequest(cell)
    /\ cellPrev' = cell
    /\ cellIn' = [op |-> "CaptureRequest", y |-> NilResponse]
    /\ UNCHANGED <<varzVars, classifyVars>>

CellCaptureResponse ==
    /\ CellCalls(cell) < MaxCellCalls
    /\ \E y \in {NilResponse} \cup {Response(c) : c \in StatusCodes},
          z \in Durations, k \in Evictions(cell.Latency) :
          /\ cell' = CaptureResponse(cell, y, z, k)
          /\ cellIn' = [op |-> "CaptureResponse", y |-> y]
    /\ cellPrev' = cell
    /\ UNCHANGED <<varzVars, classifyVars>>

NextCell == CellCaptureRequest \/ CellCaptureResponse

SpecCell == Init /\ [][NextCell]_vars

----------------------------------------------------------------------------
(* SpecReservoir: one HttpMetric, its latency sample filled past capacity *)

\* One more response is captured on the cell.
ReservoirCapture ==
    /\ CellCalls(cell) < MaxSamples
    /\ \E z \in Durations, k \in Evictions(cell.Latency) :
          cell' = CaptureResponse(cell, NilResponse, z, k)
    /\ cellPrev' = cell
    /\ cellIn' = [op |-> "CaptureResponse", y |-> NilResponse]
    /\ UNCHANGED <<varzVars, classifyVars>>

NextReservoir == ReservoirCapture

SpecReservoir == Init /\ [][NextReservoir]_vars

----------------------------------------------------------------------------
(* SpecClassify: a caller probing the classifiers with an error *)

InitClassify ==
    /\ InitVarz
    /\ InitCell
    /\ err \in Errors
    /\ verdict = <<>>

\* The caller calls one classifier it has not yet tried on err.
Probe(c) ==
    /\ c \notin DOMAIN verdict
    /\ verdict' = [u \in DOMAIN verdict \cup {c} |->
                     IF u = c THEN Classify(c, err) ELSE verdict[u]]
    /\ err' = err
    /\ UNCHANGED <<varzVars, cellVars>>

\* The caller turns to another error.
NextError ==
    /\ err' \in Errors
    /\ verdict' = <<>>
    /\ UNCHANGED <<varzVars, cellVars>>

NextClassify == (\E c \in Classifiers : Probe(c)) \/ NextError

SpecClassify == InitClassify /\ [][NextClassify]_vars


----------------------------------------------------------------------------
(* Properties of Varz, checked under Spec *)

\* The goroutines that are in method op at position at.
At(op, at) == {p \in Procs : loc[p].op = op /\ pc[p] = at}

Quiescent == \A p \in Procs : pc[p] = "idle"

\* The counters of a cell and its latency sample: what captures change.
Counters(x) ==
    <<x.Requests, x.Responses2xx, x.Responses3xx, x.Responses4xx,
      x.Responses5xx, x.ResponsesXxx, x.Latency>>

\* The request count of tag t in dimension k of acc, 0 where it has no cell.
RequestsOf(acc, k, t) ==
    IF t \in DOMAIN acc.Tags[k] THEN acc.heap[acc.Tags[k][t]].Requests ELSE 0

\* C1: no lost updates. After N CaptureBackendRequest calls have returned,
\* whatever the interleaving with other calls, the document a serialize is
\* about to return shows N requests in "all", and so does x.All once every
\* call has returned.
C1_NoLostUpdates ==
    /\ \A p \in At("MarshalJSON", "unlock") :
         doc.all.requests = done["CaptureBackendRequest"]
    /\ Quiescent => heap[AllPtr].Requests = done["CaptureBackendRequest"]

\* A serialize after a request returned, its document showing that request.
C1_Witness ==
    \E p \in At("MarshalJSON", "unlock") :
        doc.all.requests = 1 /\ done["CaptureBackendRequest"] = 1

\* Two callers have both returned and both requests are counted.
C1_WitnessTwoCallers ==
    /\ Quiescent
    /\ done["CaptureBackendRequest"] = 2
    /\ heap[AllPtr].Requests = 2

\* The counters a document shows: those of "all", of every tag cell, and
\* bad_requests.
BlockCounters(j) ==
    <<j.requests, j.responses_2xx, j.responses_3xx, j.responses_4xx,
      j.responses_5xx, j.responses_xxx>>

DocCounters(j) ==
    [all |-> BlockCounters(j.all),
     tags |-> [k \in DimSet |-> [t \in DOMAIN j.tags[k] |-> BlockCounters(j.tags[k][t])]],
     bad_requests |-> j.bad_requests]

\* The same counters, read from what the capture methods had accumulated.
CellCounts(x) ==
    <<x.Requests, x.Responses2xx, x.Responses3xx, x.Responses4xx,
      x.Responses5xx, x.ResponsesXxx>>

AccCounters(acc) ==
    [all |-> CellCounts(acc.heap[AllPtr]),
     tags |-> [k \in DimSet |->
                 [t \in DOMAIN acc.Tags[k] |-> CellCounts(acc.heap[acc.Tags[k][t]])]],
     bad_requests |-> acc.BadRequests]

C4_RequestEffect ==
    \A p \in At("CaptureBackendRequest", "unlock") :
        LET b == loc[p].b
            now == Accumulated
        IN  /\ \A k \in DimSet :
                 IF k \in DOMAIN b
                 THEN /\ DOMAIN Tags[k] = DOMAIN pre.acc.Tags[k] \cup {b[k]}
                      /\ RequestsOf(now, k, b[k]) = RequestsOf(pre.acc, k, b[k]) + 1
                      /\ \A t \in DOMAIN Tags[k] \ {b[k]} :
                           /\ Tags[k][t] = pre.acc.Tags[k][t]
                           /\ Counters(heap[Tags[k][t]]) = Counters(pre.acc.heap[Tags[k][t]])
                 ELSE /\ Tags[k] = pre.acc.Tags[k]
                      /\ \A t \in DOMAIN Tags[k] :
                           Counters(heap[Tags[k][t]]) = Counters(pre.acc.heap[Tags[k][t]])
            /\ heap[AllPtr].Requests = pre.acc.heap[AllPtr].Requests + 1

\* A request to a backend tagged in the component dimension only is about to
\* return, a cell of another component and cells of the other dimensions
\* being there from an earlier call.
C4_Witness ==
    \E p \in At("CaptureBackendRequest", "unlock") :
        /\ DOMAIN loc[p].b = {"component"}
        /\ DOMAIN Tags["component"] = {"cc", "dea"}
        /\ DOMAIN Tags["framework"] = {"rails"}
        /\ heap[AllPtr].Requests = 2

\* The cells other than x.All are exactly the cells the tag maps hold, each
\* under one tag of one dimension.
NoOrphanCell ==
    /\ \A a \in DOMAIN heap \ {AllPtr} :
         Cardinality({kt \in DimSet \X {"cc", "dea", "rails", "ruby", ""} :
                        kt[2] \in DOMAIN Tags[kt[1]] /\ Tags[kt[1]][kt[2]] = a}) = 1
    /\ \A k \in DimSet : \A t \in DOMAIN Tags[k] :
         Tags[k][t] \in DOMAIN heap \ {AllPtr}

\* A tag that has a cell keeps that very cell.
CellsStay ==
    \A k \in DimSet : \A t \in DOMAIN Tags[k] :
        t \in DOMAIN Tags'[k] /\ Tags'[k][t] = Tags[k][t]

\* C5: get-or-create identity. A tag has at most one cell; a later lookup of
\* the tag returns the cell the first one created and never replaces it; and
\* every cell ever created is the cell of its tag, so that no update made
\* through it is lost, also when callers first use a tag concurrently.
C5_GetOrCreate == [](NoOrphanCell) /\ [][CellsStay]_vars

\* Two callers used the same, new, tag concurrently: the second, which waited
\* for the lock, is about to return, and the one cell of the tag counts both.
C5_Witness ==
    \E p \in At("CaptureBackendRequest", "unlock") :
        /\ loc[p].b # <<>>
        /\ done["CaptureBackendRequest"] = 1
        /\ heap[Tags["component"][loc[p].b["component"]]].Requests = 2
        /\ Len(heap) = 1 + Cardinality(DOMAIN loc[p].b)

\* C9: top-N conversion. Once updateTop has run, varz.TopApps has one entry
\* per entry of the registry's answer y, in y's order, with that application,
\* rpm its request count and rps the count divided by the 60 seconds of
\* stats.TopAppsEntryLifetime, rounded down (600 requests: rps = 10); and the
\* document shows that list.
C9_TopConversion ==
    \A p \in At("MarshalJSON", "encode") \cup At("MarshalJSON", "unlock") :
        LET y == loc[p].top
        IN  /\ Len(TopApps) = Len(y)
            /\ \A i \in 1..Len(y) :
                 /\ TopApps[i].ApplicationId = y[i].ApplicationId
                 /\ TopApps[i].RequestsPerMinute = y[i].Requests
                 /\ 60 * TopApps[i].RequestsPerSecond <= y[i].Requests
                 /\ y[i].Requests < 60 * (TopApps[i].RequestsPerSecond + 1)
                 /\ y[i].Requests = 600 => TopApps[i].RequestsPerSecond = 10
            /\ pc[p] = "unlock" => doc.top10_app_requests = TopApps

\* A document whose first top application made 600 requests: rps 10, rpm 600.
C9_Witness ==
    \E p \in At("MarshalJSON", "unlock") :
        /\ Len(doc.top10_app_requests) = 1
        /\ doc.top10_app_requests[1].RequestsPerMinute = 600
        /\ doc.top10_app_requests[1].RequestsPerSecond = 10

\* No counter of x.All, of the cell of any tag, nor the bad-request counter
\* is smaller after a step than before it.
NoDecrease ==
    /\ BadRequests' >= BadRequests
    /\ \A j \in 1..6 : CellCounts(heap'[AllPtr])[j] >= CellCounts(heap[AllPtr])[j]
    /\ \A k \in DimSet : \A t \in DOMAIN Tags[k] :
         /\ t \in DOMAIN Tags'[k]
         /\ \A j \in 1..6 :
              CellCounts(heap'[Tags'[k][t]])[j] >= CellCounts(heap[Tags[k][t]])[j]

\* C10: monotonic counters. Along every execution no counter of any cell and
\* not the bad-request counter decreases from one state to the next.
C10_Monotonic == [][NoDecrease]_vars

\* Counters that have grown: a bad request, and a response counted in the
\* cell of a tag and in x.All.
C10_Witness ==
    /\ BadRequests = 1
    /\ heap[AllPtr].Responses5xx = 1
    /\ "cc" \in DOMAIN Tags["component"]
    /\ heap[Tags["component"]["cc"]].Responses5xx = 1

----------------------------------------------------------------------------
(* Properties of HttpMetric, checked under SpecCell *)

\* The counter a response belongs to, by the range of its status code.
BucketOfRange(y) ==
    IF y.isNil THEN "ResponsesXxx"
    ELSE IF 200 <= y.StatusCode /\ y.StatusCode <= 299 THEN "Responses2xx"
    ELSE IF 300 <= y.StatusCode /\ y.StatusCode <= 399 THEN "Responses3xx"
    ELSE IF 400 <= y.StatusCode /\ y.StatusCode <= 499 THEN "Responses4xx"
    ELSE IF 500 <= y.StatusCode /\ y.StatusCode <= 599 THEN "Responses5xx"
    ELSE "ResponsesXxx"

ResponseCounters == {"Responses2xx", "Responses3xx", "Responses4xx",
                     "Responses5xx", "ResponsesXxx"}

\* C3: status bucketing. CaptureResponse adds one to the counter of the range
\* the status code lies in (200..299, 300..399, 400..499, 500..599), to
\* ResponsesXxx for a nil response or any other code, and leaves the other
\* four counters as they were.
C3_StatusBucketing ==
    cellIn.op = "CaptureResponse" =>
        \A c \in ResponseCounters :
            cell[c] = cellPrev[c] + (IF c = BucketOfRange(cellIn.y) THEN 1 ELSE 0)

\* A response with status 599 was captured after a nil response.
C3_Witness ==
    /\ cellIn.op = "CaptureResponse"
    /\ cellIn.y = Response(599)
    /\ cell.Responses5xx = 1
    /\ cell.ResponsesXxx = 1

----------------------------------------------------------------------------
(* Properties of the classifiers, checked under SpecClassify *)

IsA(e, T) == e.type = T

\* The trigger of each classifier, as the table of categories states it.
Trigger(c, e) ==
    CASE c = "AttemptedTLSWithNonTLSBackend" -> IsA(e, "tls.RecordHeaderError")
      [] c = "Dial" ->
           IsA(e, "net.OpError") /\ ~e.nilptr /\ e.Op = "dial"
      [] c = "ConnectionResetOnRead" ->
           /\ IsA(e, "net.OpError") /\ ~e.nilptr /\ e.Op = "read"
           /\ e.Err = ErrMsg("read: connection reset by peer")
      [] c = "RemoteFailedCertCheck" ->
           /\ IsA(e, "net.OpError") /\ ~e.nilptr /\ e.Op = "remote error"
           /\ e.Err = ErrMsg("tls: bad certificate")
      [] c = "RemoteHandshakeFailure" ->
           /\ IsA(e, "net.OpError") /\ ~e.nilptr /\ e.Op = "remote error"
           /\ e.Err = ErrMsg("tls: handshake failure")
      [] c = "HostnameMismatch" -> IsA(e, "x509.HostnameError")
      [] c = "UntrustedCert" -> IsA(e, "x509.UnknownAuthorityError")

\* C6: classifier totality. Every classifier returns false, and does not
\* panic, on every error that does not match its trigger.
C6_Total ==
    \A c \in DOMAIN verdict : ~Trigger(c, err) => verdict[c] = "false"

\* C7: trigger exactness. A classifier returns true on an error if and only
\* if the error matches the classifier's trigger.
C7_TriggerExact ==
    \A c \in DOMAIN verdict : (verdict[c] = "true") <=> Trigger(c, err)

\* All seven were probed with a handshake failure reported by the remote.
C7_Witness ==
    /\ DOMAIN verdict = Classifiers
    /\ err.Op = "remote error"
    /\ verdict["RemoteHandshakeFailure"] = "true"
    /\ verdict["RemoteFailedCertCheck"] = "false"

\* The three errors of the scenarios: a read reset by the peer, a dial
\* failure (whatever its underlying error, none included), a hostname error
\* (a value or a pointer).
ResetOnReadError(e) ==
    /\ IsA(e, "net.OpError") /\ ~e.nilptr /\ e.Op = "read"
    /\ e.Err = ErrMsg("read: connection reset by peer")
DialError(e) == IsA(e, "net.OpError") /\ ~e.nilptr /\ e.Op = "dial"
HostnameError(e) == IsA(e, "x509.HostnameError")

Only(c) == [u \in Classifiers |-> IF u = c THEN "true" ELSE "false"]

\* C8: classifier scenarios. Probed with all seven classifiers, a read reset
\* by the peer makes ConnectionResetOnRead true and the other six false, a
\* dial failure makes Dial true and the other six false, a hostname error
\* makes HostnameMismatch true and the other six false.
C8_Scenarios ==
    /\ ResetOnReadError(err) =>
         \A c \in DOMAIN verdict : verdict[c] = Only("ConnectionResetOnRead")[c]
    /\ DialError(err) => \A c \in DOMAIN verdict : verdict[c] = Only("Dial")[c]
    /\ HostnameError(err) =>
         \A c \in DOMAIN verdict : verdict[c] = Only("HostnameMismatch")[c]

\* All seven were probed with a hostname error.
C8_Witness ==
    /\ HostnameError(err)
    /\ verdict = Only("HostnameMismatch")

----------------------------------------------------------------------------
(* The lock of Varz, checked under Spec *)

\* The goroutines between the return of x.Lock() and the deferred x.Unlock().
InCritical == {p \in Procs : pc[p] \notin {"idle", "lock"}}

\* The tags the callers pass, and the zero value of a tag.
TagValues == <<"cc", "dea", "rails", "ruby", "">>

\* The counters of a cell, in the order of CellCounts.
CounterNames == <<"Requests", "Responses2xx", "Responses3xx", "Responses4xx",
                  "Responses5xx", "ResponsesXxx">>

\* Counter j of the cell of tag t in dimension k of acc, 0 where it has none.
CountOf(acc, k, t, j) ==
    IF t \in DOMAIN acc.Tags[k] THEN acc.heap[acc.Tags[k][t]][CounterNames[j]] ELSE 0

\* Counter j summed over the cells of dimension k of acc.
RECURSIVE TagSum(_, _, _, _)
TagSum(acc, k, j, n) ==
    IF n = 0 THEN 0 ELSE CountOf(acc, k, TagValues[n], j) + TagSum(acc, k, j, n - 1)

TagTotal(acc, k, j) == TagSum(acc, k, j, Len(TagValues))

\* No capture is half-applied in acc: a capture updates the cells of the
\* dimensions before x.All, so that between its first and its last update
\* some dimension counts more than x.All does.
Whole(acc) ==
    \A k \in DimSet : \A j \in 1..6 :
        TagTotal(acc, k, j) <= acc.heap[AllPtr][CounterNames[j]]

\* C11: mutual exclusion. At most one goroutine is between Lock and Unlock of
\* CaptureBadRequest, CaptureBackendRequest, CaptureBackendResponse or
\* MarshalJSON, and it is the one holding the mutex; the mutex is free only
\* when no capture is half-applied, so that whoever takes it, a capture or
\* a serialize, finds every capture applied as a whole or not at all.
C11_MutualExclusion ==
    /\ Cardinality(InCritical) <= 1
    /\ \A p \in InCritical : mutex = p
    /\ IF mutex = 0 THEN Whole(Accumulated) ELSE mutex \in InCritical

\* A capture has updated the cell of a tag and not yet x.All, and a
\* serialize waits for the lock.
C11_Witness ==
    /\ ~Whole(Accumulated)
    /\ \E p \in InCritical : loc[p].op \in BackendCaptures /\ pc[p] = "all"
    /\ At("MarshalJSON", "lock") # {}

----------------------------------------------------------------------------
(* Totality of the methods of Varz, checked under SpecFresh *)

\* C12: metrics-path totality. On the Varz NewVarz returns no call fails: no
\* goroutine panics in CaptureBadRequest, CaptureBackendRequest,
\* CaptureBackendResponse or MarshalJSON; a nil response is counted in
\* ResponsesXxx of x.All; a backend without tags leaves the tag maps and
\* their cells as they were; and in the document a cell whose latency sample
\* is empty shows 0 for its 50, 75 and 99 percentiles.
C12_Total ==
    /\ \A p \in Procs : pc[p] # "panic"
    /\ \A p \in At("CaptureBackendResponse", "unlock") :
         loc[p].res.isNil =>
             heap[AllPtr].ResponsesXxx = pre.acc.heap[AllPtr].ResponsesXxx + 1
    /\ \A p \in Procs :
         (loc[p].op \in BackendCaptures /\ pc[p] = "unlock" /\ loc[p].b = <<>>) =>
             /\ Tags = pre.acc.Tags
             /\ \A a \in DOMAIN heap \ {AllPtr} : heap[a] = pre.acc.heap[a]
    /\ \A p \in At("MarshalJSON", "unlock") :
         /\ heap[AllPtr].Latency = <<>> =>
                \A q \in {50, 75, 99} : doc.all.latency[q] = 0
         /\ \A k \in DimSet : \A t \in DOMAIN Tags[k] :
                heap[Tags[k][t]].Latency = <<>> =>
                    \A q \in {50, 75, 99} : doc.tags[k][t].latency[q] = 0

----------------------------------------------------------------------------
(* Frame and accounting of the methods of Varz, checked under Spec *)

\* C13: bad-request counting. A CaptureBadRequest about to return has added
\* exactly one to x.BadRequests and left every cell, the tag maps and the
\* derived fields as it found them; the document of a serialize shows as many
\* bad requests as CaptureBadRequest calls have returned, and so does
\* x.BadRequests once every call has returned, whatever their interleaving.
C13_BadRequests ==
    /\ \A p \in At("CaptureBadRequest", "unlock") :
         /\ BadRequests = pre.acc.BadRequests + 1
         /\ heap = pre.acc.heap
         /\ Tags = pre.acc.Tags
         /\ Derived = pre.derived
    /\ \A p \in At("MarshalJSON", "unlock") :
         doc.bad_requests = done["CaptureBadRequest"]
    /\ Quiescent => BadRequests = done["CaptureBadRequest"]

\* The second of two concurrent CaptureBadRequest calls is about to return.
C13_Witness ==
    \E p \in At("CaptureBadRequest", "unlock") :
        /\ done["CaptureBadRequest"] = 1
        /\ BadRequests = 2

\* The steps of a serialize that set the derived fields: each field becomes
\* what its source answers at that step, whatever the field held.
DerivedStep(p) ==
    /\ (pc[p] = "urls" /\ pc'[p] = "droplets") => Urls' = NumUris(registry)
    /\ (pc[p] = "droplets" /\ pc'[p] = "rate") => Droplets' = NumBackends(registry)
    /\ (pc[p] = "rate" /\ pc'[p] = "top") =>
           RequestsPerSec' = Rate1(heap[AllPtr].Rate)
    /\ (pc[p] = "top" /\ pc'[p] = "encode") =>
           LET y == TopSince(registry, 10)
           IN  /\ Len(TopApps') = Len(y)
               /\ \A i \in 1..Len(y) : TopApps'[i].ApplicationId = y[i].ApplicationId

\* Once updateTop has run, the list has the entries of this serialize's
\* answer and no other, at most 10, and the document shows the four derived
\* fields as this serialize set them.
DerivedFresh ==
    \A p \in At("MarshalJSON", "encode") \cup At("MarshalJSON", "unlock") :
        /\ Len(TopApps) = Len(loc[p].top)
        /\ Len(TopApps) <= 10
        /\ \A i \in 1..Len(TopApps) :
             TopApps[i].ApplicationId = loc[p].top[i].ApplicationId
        /\ pc[p] = "unlock" =>
              /\ doc.urls = Urls
              /\ doc.droplets = Droplets
              /\ doc.requests_per_sec = RequestsPerSec
              /\ doc.top10_app_requests = TopApps

\* C14: derived fields are recomputed, not accumulated. Every serialize sets
\* urls, droplets and requests_per_sec to what the registry and the meter of
\* x.All answer during that serialize, rebuilds the top-apps list from empty
\* out of the registry's answer, so that no entry of an earlier snapshot
\* stays, and the list never holds more than 10 entries.
C14_Recomputed ==
    [](DerivedFresh) /\ [][\A p \in Procs : loc[p].op = "MarshalJSON" => DerivedStep(p)]_vars

\* A serialize that found the ten entries of an earlier snapshot, taken when
\* the registry ranked eleven applications, is about to return a document
\* with the one application the registry ranks now.
C14_Witness ==
    \E p \in At("MarshalJSON", "unlock") :
        /\ Len(pre.derived.TopApps) = 10
        /\ Len(doc.top10_app_requests) = 1

----------------------------------------------------------------------------
(* The latency sample, checked under SpecReservoir *)

\* C15: reservoir bound. However many responses a cell has captured, its
\* latency sample holds at most the 1028 values it was made for.
C15_ReservoirBound == Len(cell.Latency) <= ReservoirSize

\* The cell has captured more responses than its sample has room for, and
\* the sample is full.
C15_Witness ==
    /\ cell.ResponsesXxx > ReservoirSize
    /\ Len(cell.Latency) = ReservoirSize

----------------------------------------------------------------------------
(* Effect of CaptureBackendResponse, checked under Spec *)

\* The cell tag t of dimension k had when the lock was taken, a cell no
\* method was called on where it had none.
CellBefore(k, t) ==
    IF t \in DOMAIN pre.acc.Tags[k] THEN pre.acc.heap[pre.acc.Tags[k][t]]
    ELSE NewHttpMetric

\* now is old after one response res that took d: one more in the counter
\* of res, the other four counters, the request counter and the meter as
\* they were, d added to the latency sample.
OneResponse(now, old, res, d) ==
    /\ \A c \in ResponseCounters :
         now[c] = old[c] + (IF c = BucketOfRange(res) THEN 1 ELSE 0)
    /\ now.Requests = old.Requests
    /\ now.Rate = old.Rate
    /\ now.Latency = Append(old.Latency, d)

\* C16: what one CaptureBackendResponse(b, res, d) has done when it is about
\* to return. x.All and, in each dimension b has a tag of, the cell of that
\* tag (a new cell where the tag had none) count one more response in the
\* bucket of res, the same everywhere, and hold one more latency sample, d;
\* every other cell, and every cell of a dimension b has no tag of, is the
\* same cell unchanged; no request counter changes and x.BadRequests does not.
C16_ResponseEffect ==
    \A p \in At("CaptureBackendResponse", "unlock") :
        LET b == loc[p].b
            res == loc[p].res
            d == loc[p].d
        IN  /\ OneResponse(heap[AllPtr], pre.acc.heap[AllPtr], res, d)
            /\ BadRequests = pre.acc.BadRequests
            /\ \A k \in DimSet :
                 IF k \in DOMAIN b
                 THEN /\ DOMAIN Tags[k] = DOMAIN pre.acc.Tags[k] \cup {b[k]}
                      /\ OneResponse(heap[Tags[k][b[k]]], CellBefore(k, b[k]), res, d)
                      /\ \A t \in DOMAIN Tags[k] \ {b[k]} :
                           /\ Tags[k][t] = pre.acc.Tags[k][t]
                           /\ heap[Tags[k][t]] = pre.acc.heap[Tags[k][t]]
                 ELSE /\ Tags[k] = pre.acc.Tags[k]
                      /\ \A t \in DOMAIN Tags[k] :
                           heap[Tags[k][t]] = pre.acc.heap[Tags[k][t]]

\* A 503 from a backend tagged in all three dimensions is about to return,
\* the cell of another component being there from an earlier call.
C16_Witness ==
    \E p \in At("CaptureBackendResponse", "unlock") :
        /\ DOMAIN loc[p].b = DimSet
        /\ loc[p].res = Response(503)
        /\ "cc" \in DOMAIN Tags["component"]
        /\ heap[Tags["framework"]["rails"]].Responses5xx = 1
        /\ heap[AllPtr].Responses5xx = 1

----------------------------------------------------------------------------
(* Liveness of the lock, checked under SpecLive *)

\* C17: liveness of the lock. Every goroutine that has entered
\* CaptureBadRequest, CaptureBackendRequest, CaptureBackendResponse or
\* MarshalJSON and waits in Lock eventually holds the mutex, and every call
\* eventually returns with the mutex released by it, also a MarshalJSON that
\* panics: no goroutine waits forever.
C17_LockLiveness ==
    \A p \in Procs :
        /\ (pc[p] = "lock") ~> (mutex = p)
        /\ (pc[p] # "idle") ~> (pc[p] = "idle" /\ mutex # p)

\* A capture waits for the lock while the serialize holding it panics.
C17_Witness ==
    \E p \in Procs : \E q \in Procs :
        /\ pc[p] = "panic" /\ mutex = p
        /\ pc[q] = "lock" /\ loc[q].op \in Captures

----------------------------------------------------------------------------
(* Accounting, checked under Spec *)

\* The responses a cell has counted, over its five buckets.
ResponsesIn(x) ==
    x.Responses2xx + x.Responses3xx + x.Responses4xx + x.Responses5xx
    + x.ResponsesXxx

\* The cells there are.
Cells == {heap[a] : a \in DOMAIN heap}

\* Counter j of CellCounts belongs to the requests (1) or to the responses.
MethodOf(j) == IF j = 1 THEN "CaptureBackendRequest" ELSE "CaptureBackendResponse"

\* C18: accounting. When no call is in progress, every cell has counted in
\* its five buckets as many responses as were captured on it (each left one
\* latency sample), x.All as many as CaptureBackendResponse calls returned
\* and as many requests as CaptureBackendRequest calls returned; and in each
\* dimension the cells together count, of requests and of responses, what
\* the calls whose backend had a tag of the dimension brought: per counter
\* no more than x.All, and the same as x.All when every backend had one.
C18_Accounting ==
    Quiescent =>
        /\ \A x \in Cells : ResponsesIn(x) = Len(x.Latency)
        /\ heap[AllPtr].Requests = done["CaptureBackendRequest"]
        /\ ResponsesIn(heap[AllPtr]) = done["CaptureBackendResponse"]
        /\ \A k \in DimSet :
             /\ TagTotal(Accumulated, k, 1) = tagged["CaptureBackendRequest"][k]
             /\ TagTotal(Accumulated, k, 2) + TagTotal(Accumulated, k, 3)
                + TagTotal(Accumulated, k, 4) + TagTotal(Accumulated, k, 5)
                + TagTotal(Accumulated, k, 6) = tagged["CaptureBackendResponse"][k]
             /\ \A j \in 1..6 :
                  /\ TagTotal(Accumulated, k, j) <= CellCounts(heap[AllPtr])[j]
                  /\ tagged[MethodOf(j)][k] = done[MethodOf(j)] =>
                        TagTotal(Accumulated, k, j) = CellCounts(heap[AllPtr])[j]

\* Two requests have returned, both to backends with a component and one of
\* them to a backend with a framework: the components count what x.All
\* counts, the frameworks less.
C18_Witness ==
    /\ Quiescent
    /\ heap[AllPtr].Requests = 2
    /\ TagTotal(Accumulated, "component", 1) = 2
    /\ TagTotal(Accumulated, "framework", 1) = 1

----------------------------------------------------------------------------
(* Serialize and the accumulated state, checked under Spec *)

\* A step of goroutine p in Varz.MarshalJSON, its entry and return included.
SerializeStep(p) ==
    /\ pc'[p] # pc[p]
    /\ loc[p].op = "MarshalJSON" \/ loc'[p].op = "MarshalJSON"

\* C19: serialize is read-only on the accumulated state. No step of a
\* Varz.MarshalJSON changes a cell, a tag map or x.BadRequests, and the
\* counters of the document it returns are those the cells and x.BadRequests
\* hold: serializes with no capture between them return the same counters.
C19_ReadOnly ==
    /\ [][\A p \in Procs : SerializeStep(p) => Accumulated' = Accumulated]_vars
    /\ [](\A p \in At("MarshalJSON", "unlock") :
             DocCounters(doc) = AccCounters(Accumulated))

\* A serialize is about to return the counters a response capture and a
\* bad request left, which are still there.
C19_Witness ==
    \E p \in At("MarshalJSON", "unlock") :
        /\ Len(heap) > 1
        /\ doc.all.responses_5xx + doc.bad_requests = 1
        /\ heap[AllPtr].Responses5xx + BadRequests = 1

----------------------------------------------------------------------------
(* Exclusivity of the classifiers, checked under SpecClassify *)

\* The classifiers that returned true on err, among those probed.
Positive == {c \in DOMAIN verdict : verdict[c] = "true"}

\* C20: classifier exclusivity. Whatever the error and whichever classifiers
\* were called on it, in whatever order, at most one of them returned true.
C20_Exclusive == Cardinality(Positive) <= 1

\* All seven were probed with a pointer to an unknown-authority error, and
\* UntrustedCert alone returned true.
C20_Witness ==
    /\ DOMAIN verdict = Classifiers
    /\ err.type = "x509.UnknownAuthorityError" /\ err.ptr
    /\ Positive = {"UntrustedCert"}

====
